---- MODULE Spec2Model ----
(***************************************************************************)
(* Model of analysis/plot_testbed.py (Chameleon testbed plot script).      *)
(*                                                                         *)
(* The script is a straight-line pipeline: select_measurement, join the    *)
(* two file names, pd.read_csv, filter the keys, prepend "Sum" and         *)
(* "violations", px.line, fig.write_html, print.  Every statement is one   *)
(* action; an uncaught exception of a statement ends the run (pc =         *)
(* "failed").  The file system holds, per measurement directory, the       *)
(* header of throughput_per_egress.csv and the content of                  *)
(* plot_testbed.html.  Data rows do not influence any statement of the     *)
(* script other than through the library calls, so a table is represented  *)
(* by its column labels (df.keys()), which pandas keeps distinct.          *)
(***************************************************************************)
EXTENDS Integers, Sequences, FiniteSets, TLC

\* ---------------------------------------------------------------- bounds
MaxCols == 6        \* longest header of throughput_per_egress.csv
MaxColsRuns == 4    \* longest header in the repeated-run specification
MaxRuns == 2        \* invocations of the script in the repeated-run spec

\* ------------------------------------------------------------- universe
Names == {"t", "Sum", "violations", "A", "B", "C", "D"}
NamesRuns == {"t", "Sum", "violations", "A", "B"}
Dirs == {"m1", "m2"}

Range(s) == {s[i] : i \in 1..Len(s)}

Distinct(s) == \A i, j \in 1..Len(s) : i # j => s[i] # s[j]

\* headers (column labels in file order) of at most n distinct names
Headers(names, n) ==
  {h \in UNION {[1..k -> names] : k \in 0..n} : Distinct(h)}

\* content of throughput_per_egress.csv in one directory
NoCsv == [exists |-> FALSE, header |-> <<>>]
Csv(h) == [exists |-> TRUE, header |-> h]

\* content of plot_testbed.html in one directory
Absent == [kind |-> "absent", x |-> "", y |-> <<>>]
OldHtml == [kind |-> "old", x |-> "", y |-> <<>>]
Truncated == [kind |-> "truncated", x |-> "", y |-> <<>>]

NoFig == [x |-> "", y |-> <<>>]
NoPath == <<"", "">>

VARIABLES
  csv,        \* [Dirs -> csv content]: throughput_per_egress.csv per directory
  html,       \* [Dirs -> html content]: plot_testbed.html per directory
  pc,         \* statement about to run, or "done" / "failed"
  path,       \* line 25
  file,       \* line 26
  plot_file,  \* line 27
  df,         \* line 29: column labels of the DataFrame
  keys,       \* lines 30, 32
  fig,        \* line 34
  stdout,     \* lines printed by this process
  err,        \* uncaught exception that ended the run, "" if none
  failedAt,   \* statement that raised, "" if none
  run,        \* number of this invocation
  html0,      \* plot_testbed.html per directory when this invocation started
  prev        \* what the previous invocation ended with

vars == <<csv, html, pc, path, file, plot_file, df, keys, fig, stdout, err,
          failedAt, run, html0, prev>>

locals == <<path, file, plot_file, df, keys, fig>>

NoPrev == [pc |-> "", path |-> "", keys |-> <<>>, html |-> Absent]

\* ------------------------------------------------- the script's functions

\* os.path.join(path, name)
JoinPath(dir, name) == <<dir, name>>

\* pd.read_csv(file, sep=","): raises when the file is missing or empty
ReadCsvError(c) ==
  IF ~c.exists THEN "FileNotFoundError"
  ELSE IF Len(c.header) = 0 THEN "EmptyDataError"
  ELSE ""

\* the column labels of the parsed frame, df.keys()
ReadCsv(c) == c.header

IsPlain(k) == k \notin {"t", "Sum", "violations"}

FilterKeysKeepT(cols) == SelectSeq(cols, LAMBDA k : k \notin {"Sum", "violations"})

FilterKeysKeepViolations(cols) == SelectSeq(cols, LAMBDA k : k \notin {"t", "Sum"})

FilterKeysKeepSum(cols) == SelectSeq(cols, LAMBDA k : k \notin {"t", "violations"})

FilterKeysReversed(cols) ==
  LET f == SelectSeq(cols, IsPlain)
  IN  [i \in 1..Len(f) |-> f[Len(f) + 1 - i]]

\* [k for k in df.keys() if k not in {"t", "Sum", "violations"}]
FilterKeys(cols) == SelectSeq(cols, IsPlain)

PrependKeysSwapped(ks) == <<"violations">> \o <<"Sum">> \o ks

PrependKeysNoSum(ks) == <<"violations">> \o ks

\* ["Sum"] + ["violations"] + keys
PrependKeys(ks) == <<"Sum">> \o <<"violations">> \o ks

LineErrorNoXCheck(cols, x, y) ==
  IF \A i \in 1..Len(y) : y[i] \in Range(cols) THEN "" ELSE "ValueError"

\* px.line(df, x=..., y=...): every named column must be a column of df
LineError(cols, x, y) ==
  IF x \in Range(cols) /\ \A i \in 1..Len(y) : y[i] \in Range(cols)
  THEN "" ELSE "ValueError"

\* the figure px.line builds: one trace per entry of y, in that order
Line(cols, x, y) == [x |-> x, y |-> y]

\* the document fig.write_html serialises
ToHtml(f) == [kind |-> "figure", x |-> f.x, y |-> f.y]

WriteOutcomes == {"ok", "denied", "nospace"}

WriteErrorOf(outcome) ==
  CASE outcome = "ok" -> ""
    [] outcome = "denied" -> "PermissionError"
    [] outcome = "nospace" -> "OSError"

WriteResultDeniedTruncates(old, doc, outcome) ==
  IF outcome = "ok" THEN doc ELSE Truncated

WriteResultAppends(old, doc, outcome) ==
  CASE outcome = "ok" -> [doc EXCEPT !.y = old.y \o doc.y]
    [] outcome = "denied" -> old
    [] outcome = "nospace" -> Truncated

\* what fig.write_html leaves at plot_file: the file is opened for writing
\* (refused: nothing changes), which truncates it, and then written in place
WriteResult(old, doc, outcome) ==
  CASE outcome = "ok" -> doc
    [] outcome = "denied" -> old
    [] outcome = "nospace" -> Truncated

\* ------------------------------------------------------------------ Init
InitWith(names, n) ==
  /\ \E home \in Dirs : \E h \in Headers(names, n) :
       csv = [d \in Dirs |-> IF d = home THEN Csv(h) ELSE NoCsv]
  /\ html \in [Dirs -> {Absent, OldHtml}]
  /\ html0 = html
  /\ pc = "select"
  /\ path = "" /\ file = NoPath /\ plot_file = NoPath
  /\ df = <<>> /\ keys = <<>> /\ fig = NoFig
  /\ stdout = <<>> /\ err = "" /\ failedAt = ""
  /\ run = 1
  /\ prev = NoPrev

Init == InitWith(Names, MaxCols)

InitRuns == InitWith(NamesRuns, MaxColsRuns)

\* --------------------------------------------------------------- actions
Raise(e) ==
  /\ pc' = "failed"
  /\ err' = e
  /\ failedAt' = pc

\* line 25: select_measurement raises, nothing else has run
SelectFails ==
  /\ pc = "select"
  /\ Raise("ResolutionError")
  /\ UNCHANGED <<csv, html, locals, stdout, run, html0, prev>>

\* lines 25-27: select_measurement returns a directory; both paths are joined
SelectMeasurement ==
  /\ pc = "select"
  /\ \E d \in Dirs :
       /\ path' = d
       /\ file' = JoinPath(d, "throughput_per_egress.csv")
       /\ plot_file' = JoinPath(d, "plot_testbed.html")
  /\ pc' = "read_csv"
  /\ UNCHANGED <<csv, html, df, keys, fig, stdout, err, failedAt, run, html0, prev>>

\* line 29
ReadTable ==
  /\ pc = "read_csv"
  /\ LET c == csv[file[1]] IN
       IF ReadCsvError(c) # ""
       THEN /\ Raise(ReadCsvError(c))
            /\ UNCHANGED df
       ELSE /\ df' = ReadCsv(c)
            /\ pc' = "filter"
            /\ UNCHANGED <<err, failedAt>>
  /\ UNCHANGED <<csv, html, path, file, plot_file, keys, fig, stdout, run, html0, prev>>

\* line 30
ComputeKeys ==
  /\ pc = "filter"
  /\ keys' = FilterKeys(df)
  /\ pc' = "prepend"
  /\ UNCHANGED <<csv, html, path, file, plot_file, df, fig, stdout, err, failedAt, run, html0, prev>>

\* line 32
Prepend ==
  /\ pc = "prepend"
  /\ keys' = PrependKeys(keys)
  /\ pc' = "line"
  /\ UNCHANGED <<csv, html, path, file, plot_file, df, fig, stdout, err, failedAt, run, html0, prev>>

\* line 34
BuildChart ==
  /\ pc = "line"
  /\ IF LineError(df, "t", keys) # ""
     THEN /\ Raise(LineError(df, "t", keys))
          /\ UNCHANGED fig
     ELSE /\ fig' = Line(df, "t", keys)
          /\ pc' = "write_html"
          /\ UNCHANGED <<err, failedAt>>
  /\ UNCHANGED <<csv, html, path, file, plot_file, df, keys, stdout, run, html0, prev>>

\* line 35
WriteHtml ==
  /\ pc = "write_html"
  /\ \E outcome \in WriteOutcomes :
       /\ html' = [html EXCEPT ![plot_file[1]] =
                     WriteResult(html[plot_file[1]], ToHtml(fig), outcome)]
       /\ IF outcome = "ok"
          THEN pc' = "print" /\ UNCHANGED <<err, failedAt>>
          ELSE Raise(WriteErrorOf(outcome))
  /\ UNCHANGED <<csv, locals, stdout, run, html0, prev>>

PrintWrittenEarly ==
  /\ pc = "write_html"
  /\ stdout = <<>>
  /\ stdout' = Append(stdout, plot_file)
  /\ UNCHANGED <<csv, html, pc, locals, err, failedAt, run, html0, prev>>

\* line 36
PrintWritten ==
  /\ pc = "print"
  /\ stdout' = Append(stdout, plot_file)
  /\ pc' = "done"
  /\ UNCHANGED <<csv, html, locals, err, failedAt, run, html0, prev>>

\* the operator starts the script again; a new process has fresh variables
Rerun ==
  /\ pc \in {"done", "failed"}
  /\ run < MaxRuns
  /\ run' = run + 1
  /\ prev' = [pc |-> pc, path |-> path, keys |-> keys,
              html |-> IF path = "" THEN Absent ELSE html[path]]
  /\ html0' = html
  /\ pc' = "select"
  /\ path' = "" /\ file' = NoPath /\ plot_file' = NoPath
  /\ df' = <<>> /\ keys' = <<>> /\ fig' = NoFig
  /\ stdout' = <<>> /\ err' = "" /\ failedAt' = ""
  /\ UNCHANGED <<csv, html>>

Next ==
  \/ SelectFails
  \/ SelectMeasurement
  \/ ReadTable
  \/ ComputeKeys
  \/ Prepend
  \/ BuildChart
  \/ WriteHtml
  \/ PrintWritten

NextRuns == Next \/ Rerun

Spec == Init /\ [][Next]_vars

SpecRuns == InitRuns /\ [][NextRuns]_vars

\* ---------------------------------------------------------------- claims
Designated == {"Sum", "violations"}

\* line 32 has run: keys holds the ColumnOrder handed to px.line
Ordered ==
  \/ pc \in {"line", "write_html", "print", "done"}
  \/ pc = "failed" /\ failedAt \in {"line", "write_html"}

\* the chart has been built (line 34 returned)
Charted == pc \in {"write_html", "print", "done"} \/ (pc = "failed" /\ failedAt = "write_html")

PlainOf(cols) == SelectSeq(cols, IsPlain)

PresentDesignated(cols) ==
  (IF "Sum" \in Range(cols) THEN <<"Sum">> ELSE <<>>)
    \o (IF "violations" \in Range(cols) THEN <<"violations">> ELSE <<>>)

LacksDesignated == ~(Designated \subseteq Range(df))

C3_PriorityOrdering ==
  (Ordered /\ Designated \subseteq Range(df)) =>
     /\ Len(keys) >= 2 /\ keys[1] = "Sum" /\ keys[2] = "violations"
     /\ df = <<"t", "A", "Sum", "B", "violations", "C">>
          => keys = <<"Sum", "violations", "A", "B", "C">>
     /\ Charted => (fig.y[1] = "Sum" /\ fig.y[2] = "violations")

C3_Witness ==
  /\ pc = "done"
  /\ df = <<"t", "A", "Sum", "B", "violations", "C">>
  /\ fig.y = <<"Sum", "violations", "A", "B", "C">>

\* the selected directory holds a non-empty table without a t column
NoTRun ==
  /\ pc # "select" /\ path # ""
  /\ csv[path].exists /\ Len(csv[path].header) > 0
  /\ "t" \notin Range(csv[path].header)

\* C4 (as stated): a table without a t column makes the run fail at the
\* parse step (read_csv), before any chart construction or write, and no
\* output file is produced.
C4_FailsAtParse ==
  NoTRun =>
     /\ pc \in {"read_csv", "failed"}
     /\ pc = "failed" => failedAt = "read_csv"
     /\ fig = NoFig /\ html = html0 /\ stdout = <<>>

\* C4 (amended): a table without a t column is parsed and its ColumnOrder
\* computed; the run fails at chart construction (px.line raises
\* ValueError), before any write is attempted, and no output file is
\* produced or modified.
C4_FailsAtChart ==
  NoTRun =>
     /\ pc \in {"read_csv", "filter", "prepend", "line", "failed"}
     /\ pc = "failed" => (failedAt = "line" /\ err = "ValueError")
     /\ fig = NoFig /\ html = html0 /\ stdout = <<>>

C4_Witness ==
  /\ NoTRun
  /\ pc = "failed" /\ failedAt = "line"
  /\ Designated \subseteq Range(df)
  /\ keys # <<>>

InPlaceWriteFailed ==
  pc = "failed" /\ failedAt = "write_html" /\ err = "OSError"

C6_TimeExcluded ==
  (Ordered /\ "t" \in Range(df)) =>
     /\ "t" \notin Range(keys)
     /\ Charted => (fig.x = "t" /\ "t" \notin Range(fig.y))

C6_Witness ==
  /\ pc = "done"
  /\ Len(df) >= 4 /\ df[3] = "t"
  /\ "t" \notin Range(fig.y)

\* C7: the columns other than t, Sum and violations appear in ColumnOrder in
\* their relative header order, each exactly once, all after the designated
\* columns.
C7_RemainderStable ==
  Ordered =>
    \A a \in 1..Len(df) : IsPlain(df[a]) =>
      /\ Cardinality({i \in 1..Len(keys) : keys[i] = df[a]}) = 1
      /\ \A i, j \in 1..Len(keys) :
           (keys[i] = df[a] /\ keys[j] \in Designated) => j < i
      /\ \A b \in 1..Len(df) : (a < b /\ IsPlain(df[b])) =>
           \A i, j \in 1..Len(keys) :
             (keys[i] = df[a] /\ keys[j] = df[b]) => i < j

C7_Witness ==
  /\ pc = "done"
  /\ Len(df) = 6
  /\ df[1] = "B" /\ df[2] = "Sum" /\ df[3] = "A"
  /\ keys[3] = "B" /\ keys[4] = "A"

\* C8: ColumnOrder has no duplicate names, also when Sum or violations
\* occur in the header.
C8_NoDuplicates == Ordered => Distinct(keys)

C8_Witness ==
  /\ pc = "done"
  /\ Designated \subseteq Range(df)
  /\ Len(keys) = 5

SecondRunSameDir ==
  /\ run >= 2 /\ prev.pc = "done" /\ path = prev.path

\* C9: a second run on the unchanged directory computes the same
\* ColumnOrder as the first and, overwriting the first run's file, leaves
\* plot_testbed.html with the same trace list.
C9_Idempotent ==
  /\ (SecondRunSameDir /\ Ordered) => keys = prev.keys
  /\ (SecondRunSameDir /\ pc = "done") =>
        /\ html[path] = prev.html
        /\ html[path].y = keys

C9_Witness ==
  /\ SecondRunSameDir /\ pc = "done"
  /\ Len(keys) = 3
  /\ html[path].kind = "figure"

StepOrder ==
  {<<"select", "read_csv">>, <<"read_csv", "filter">>, <<"filter", "prepend">>,
   <<"prepend", "line">>, <<"line", "write_html">>, <<"write_html", "print">>,
   <<"print", "done">>,
   <<"select", "failed">>, <<"read_csv", "failed">>, <<"line", "failed">>,
   <<"write_html", "failed">>}

Reported ==
  stdout # <<>> =>
     /\ pc = "done" /\ err = ""
     /\ stdout = <<plot_file>>
     /\ plot_file = <<file[1], "plot_testbed.html">>
     /\ html[plot_file[1]] = ToHtml(fig)
     /\ fig = [x |-> "t", y |-> keys]

\* C10: the statements run in the fixed order select, read, compute order,
\* build chart, write, report; the report is printed only after the write to
\* plot_testbed.html completed, names the file in the input file's
\* directory, and is never printed in a run in which a step failed.
C10_ReportAfterWrite ==
  /\ [](Reported /\ (pc = "failed" => stdout = <<>>))
  /\ [][pc' # pc => <<pc, pc'>> \in StepOrder]_vars

C10_Witness ==
  /\ pc = "done"
  /\ stdout = <<plot_file>>
  /\ html0[path] = OldHtml
  /\ html[path].kind = "figure"

====
